---- MODULE Spec2Model ----
(***************************************************************************)
(* PharmaGuard client: the upload-to-results pipeline orchestrator         *)
(* (Upload.handleSubmit, its progress ticker, App.handleResults and the    *)
(* navigation around them) and the per-drug dose calculator of             *)
(* DrugRiskRow.                                                            *)
(*                                                                         *)
(* JavaScript runs the handlers one at a time, so every handler, timer     *)
(* callback and promise continuation is one atomic action.  Time is not    *)
(* modelled: the 700 ms ticker, the 600 ms delay, the 4 s toast timer and  *)
(* the network response may come in any order.                             *)
(*                                                                         *)
(* Text whose characters the code inspects (file names, risk labels, the   *)
(* dose input) is a sequence of one-character strings; text that is only   *)
(* stored or compared whole is a TLA+ string.                              *)
(***************************************************************************)
EXTENDS Integers, Sequences, FiniteSets, TLC

\* ------------------------------------------------------------ bounds
MaxSubs == 2
MaxTicks == 6

\* ------------------------------------------------------------ constants
LastTickerStep == 6
CompleteStep == 7

NoFile == <<>>
NoToast == "<null>"

Min(a, b) == IF a < b THEN a ELSE b

\* String.prototype.endsWith on character sequences.
EndsWith(s, suffix) ==
    /\ Len(s) >= Len(suffix)
    /\ SubSeq(s, Len(s) - Len(suffix) + 1, Len(s)) = suffix

VcfSuffix == <<".", "v", "c", "f">>

\* Files the user can pick or drop (by name).
FileNames == { <<"a", ".", "v", "c", "f">>, <<"b", ".", "t", "x", "t">> }

SUPPORTED_DRUGS == <<"WARFARIN">>
KNOWN_MEDS == <<"PAROXETINE">>
PatientCodes == {"PATIENT_001", ""}

Range(s) == {s[i] : i \in 1..Len(s)}
Includes(s, x) == x \in Range(s)

\* Array.prototype.filter(x => x !== d)
RECURSIVE Without(_, _)
Without(s, d) ==
    IF s = <<>> THEN <<>>
    ELSE IF Head(s) = d THEN Without(Tail(s), d)
    ELSE <<Head(s)>> \o Without(Tail(s), d)

\* p => p.includes(d) ? p.filter(x => x !== d) : [...p, d]
Toggle(p, d) == IF Includes(p, d) THEN Without(p, d) ELSE Append(p, d)

\* ------------------------------------------------------------ server payloads
\* A field the payload does not have.
Undefined == "<undefined>"
UndefinedList == <<"<undefined>">>

\* risk_assessment.confidence_score, in thousandths; absent when present is FALSE.
NoScore == [present |-> FALSE, thousandths |-> 0]
Score(t) == [present |-> TRUE, thousandths |-> t]

\* One AnalysisResult as the server sends it (the fields this client reads,
\* those of risk_assessment, pharmacogenomic_profile and quality_metrics side
\* by side: a missing sub-object reads as each of its fields missing).  The
\* three phenoconversion flags are kept by their truthiness:
\* risk_assessment.phenoconversion_occurred,
\* quality_metrics.ui_phenoconversion_occurred and
\* quality_metrics.phenoconversion_detected.
ResultWarfarin ==
    [drug |-> "WARFARIN", primary_gene |-> "CYP2C9",
     risk_label |-> <<"A", "d", "j", "u", "s", "t", " ", "D", "o", "s", "e">>,
     confidence_score |-> Score(920), diplotype |-> "*1/*3", phenotype |-> "IM",
     genetic_phenotype |-> "NM", active_inhibitor |-> "FLUCONAZOLE",
     detected_variants |-> <<"rs1057910">>,
     phenoconversion_occurred |-> TRUE, ui_phenoconversion_occurred |-> TRUE,
     phenoconversion_detected |-> TRUE]
ResultCodeine ==
    [drug |-> "CODEINE", primary_gene |-> "CYP2D6",
     risk_label |-> <<"T", "o", "x", "i", "c">>,
     confidence_score |-> Score(850), diplotype |-> "*4/*4", phenotype |-> "PM",
     genetic_phenotype |-> Undefined, active_inhibitor |-> Undefined,
     detected_variants |-> <<"rs3892097">>,
     phenoconversion_occurred |-> FALSE, ui_phenoconversion_occurred |-> FALSE,
     phenoconversion_detected |-> FALSE]
\* An element of the result list that is undefined.
UndefinedResult ==
    [drug |-> Undefined, primary_gene |-> Undefined, risk_label |-> <<>>,
     confidence_score |-> NoScore, diplotype |-> Undefined, phenotype |-> Undefined,
     genetic_phenotype |-> Undefined, active_inhibitor |-> Undefined,
     detected_variants |-> UndefinedList,
     phenoconversion_occurred |-> FALSE, ui_phenoconversion_occurred |-> FALSE,
     phenoconversion_detected |-> FALSE]

\* The text of a GenePanelEntry's summary: `${gene} metabolizer status ...`
PanelSummary(gene) == <<gene, " metabolizer status based on detected variants">>

\* A GenePanelEntry as the server computes it.
PanelCYP2C9 ==
    [gene |-> "CYP2C9", diplotype |-> "*1/*3", phenotype |-> "IM",
     genetic_phenotype |-> "NM", active_inhibitor |-> "FLUCONAZOLE",
     variant_count |-> 1, summary |-> PanelSummary("CYP2C9"),
     variants |-> <<"rs1057910">>]

\* data.results is an array, a single object or missing; data.gene_panel is
\* missing, empty or a list of entries.
Payload(r, g) ==
    [results |-> r, gene_panel |-> g, patient_code |-> "PT-7",
     patient_id |-> "id-1", total_variants_parsed |-> 12]

\* The data objects the server answers with.
AnalyzeData ==
    { Payload([tag |-> "array", items |-> <<ResultWarfarin, ResultCodeine>>],
              [present |-> TRUE, entries |-> <<PanelCYP2C9>>]),
      Payload([tag |-> "object", items |-> <<ResultWarfarin>>],
              [present |-> FALSE, entries |-> <<>>]),
      Payload([tag |-> "undefined", items |-> <<>>],
              [present |-> TRUE, entries |-> <<>>]) }

NoData ==
    [results |-> [tag |-> "undefined", items |-> <<>>],
     gene_panel |-> [present |-> FALSE, entries |-> <<>>],
     patient_code |-> "<undefined>", patient_id |-> "<undefined>",
     total_variants_parsed |-> 0]

\* What comes back for one fetch: the transport fails (fetch rejects), or an
\* HTTP response with a JSON body {success, data?, error?, detail: {error}?}.
\* A missing or empty error string is "".
OutcomesOf(datas) ==
    [transport : {TRUE}, ok : {FALSE}, success : {FALSE}, error : {""},
     detail_error : {""}, hasData : {FALSE}, data : {NoData}]
    \cup
    [transport : {FALSE}, ok : BOOLEAN, success : BOOLEAN,
     error : {"", "VCF parse error"}, detail_error : {"", "Unsupported drug"},
     hasData : {FALSE}, data : {NoData}]
    \cup
    [transport : {FALSE}, ok : {TRUE}, success : {TRUE}, error : {""},
     detail_error : {""}, hasData : {TRUE}, data : datas]

\* The outcomes of POST /analyze.
Outcomes == OutcomesOf(AnalyzeData)

\* ------------------------------------------------------------ api.js
\* json.error || json.detail?.error || 'Analysis failed'
AnalyzeErrorMessage(o) ==
    IF o.error # "" THEN o.error
    ELSE IF o.detail_error # "" THEN o.detail_error
    ELSE "Analysis failed"

\* analyzeVCF throws: fetch rejected, or !res.ok || !json.success.
AnalyzeThrows(o) == o.transport \/ ~o.ok \/ ~o.success

\* The message of the Error analyzeVCF's caller catches.
AnalyzeThrown(o) == IF o.transport THEN "Failed to fetch" ELSE AnalyzeErrorMessage(o)

\* ------------------------------------------------------------ state
VARIABLES
    view, results, uploadData, genePanel,      \* App
    file, patientCode, selectedDrugs, selectedMeds,
    loading, pipelineStep, toast,              \* the mounted Upload
    subs,                                      \* one record per handleSubmit call that passed validation
    requests,                                  \* how many forms were posted to /analyze
    rowResult, standardDose, expanded,         \* one DrugRiskRow: its result prop and state
    doseField,                                 \* the text typed into its Standard Dose field
    page,                                      \* the Results page: its useState values
    fetches,                                   \* one record per getResultsByPatient call of the page
    apiCall                                    \* the last call of an api.js function and how it ended

appVars == <<view, results, uploadData, genePanel>>
formVars == <<file, patientCode, selectedDrugs, selectedMeds>>
uploadVars == <<file, patientCode, selectedDrugs, selectedMeds, loading, pipelineStep, toast>>
rowVars == <<rowResult, standardDose, expanded, doseField>>
pipelineVars == <<view, results, uploadData, genePanel, file, patientCode, selectedDrugs,
                  selectedMeds, loading, pipelineStep, toast, subs, requests>>
pageVars == <<page, fetches>>
vars == <<pipelineVars, rowVars, pageVars, apiCall>>

NoUpload == [patient_code |-> "<null>", patient_id |-> "<null>", total_variants_found |-> 0]

\* useState initial values of Upload.
UploadInit ==
    /\ file = NoFile
    /\ patientCode = "PATIENT_001"
    /\ selectedDrugs = <<>>
    /\ selectedMeds = <<>>
    /\ loading = FALSE
    /\ pipelineStep = 0
    /\ toast = NoToast

\* The App as first rendered, nothing submitted yet.
PipelineInit ==
    /\ view = "home"
    /\ results = <<>>
    /\ uploadData = NoUpload
    /\ genePanel = <<>>
    /\ UploadInit
    /\ subs = <<>>
    /\ requests = 0

\* A DrugRiskRow as mounted for result r: collapsed, no dose entered.
RowInit(r) ==
    /\ rowResult = r
    /\ standardDose = <<>>
    /\ expanded = FALSE
    /\ doseField = <<>>

\* fetchError and err.message when there is none.
NoError == "<null>"

\* The Results page while it is not on screen.
PageUnmounted ==
    [mounted |-> FALSE, crashed |-> FALSE, results |-> <<>>, genePanel |-> <<>>,
     fetchPatientId |-> <<>>, fetching |-> FALSE, fetchError |-> NoError,
     activeUploadData |-> NoUpload,
     rows |-> <<>>, cards |-> <<>>, drugCards |-> <<>>]

PageIdle ==
    /\ page = PageUnmounted
    /\ fetches = <<>>

\* No api.js function has been called.
\* A request without a body.
NoForm == [vcf_file |-> NoFile, patient_code |-> "", drugs |-> <<>>, concurrent_medications |-> <<>>]
NoRequest == [method |-> "none", path |-> <<>>, form |-> NoForm]
NoOutcome ==
    [transport |-> FALSE, ok |-> FALSE, success |-> FALSE, error |-> "",
     detail_error |-> "", hasData |-> FALSE, data |-> NoData]
NoCall ==
    [fn |-> "none", request |-> NoRequest, outcome |-> NoOutcome, threw |-> FALSE,
     message |-> NoError, hasData |-> FALSE, data |-> NoData]

ApiIdle == apiCall = NoCall

Init ==
    /\ PipelineInit
    /\ RowInit(ResultWarfarin)
    /\ PageIdle
    /\ ApiIdle

\* A fresh Upload is mounted: every useState starts over.
MountUpload ==
    /\ file' = NoFile
    /\ patientCode' = "PATIENT_001"
    /\ selectedDrugs' = <<>>
    /\ selectedMeds' = <<>>
    /\ loading' = FALSE
    /\ pipelineStep' = 0
    /\ toast' = NoToast

\* The arguments of analyzeVCF once the call no longer needs them.
NoArgs == [file |-> NoFile, patientCode |-> "", drugs |-> <<>>, concurrentMedications |-> <<>>]

\* A handleSubmit run that has returned: its closure (step, ticker, args,
\* data) is no longer reachable, and only how it ended is kept.
Finished(how) ==
    [mounted |-> FALSE, pc |-> how, step |-> 0, tickerLive |-> FALSE, ticks |-> 0,
     args |-> NoArgs, hasData |-> FALSE, data |-> NoData, leftAt |-> "none"]

\* How a run ends.  While its ticker is still live the closure stays.
Finish(sub, how) ==
    IF sub.tickerLive
    THEN [sub EXCEPT !.pc = how, !.args = NoArgs, !.hasData = FALSE, !.data = NoData]
    ELSE Finished(how)

\* The handleSubmit runs of an Upload that is gone keep running; their
\* setState calls no longer reach a component.  leftAt records where the run
\* was when its Upload went away.
Orphan(sub) ==
    IF sub.mounted
    THEN [sub EXCEPT !.mounted = FALSE, !.args = NoArgs, !.leftAt = sub.pc]
    ELSE sub
Orphaned(ss) == [i \in 1..Len(ss) |-> Orphan(ss[i])]

\* A setState call of a handleSubmit run: it reaches the component only while
\* that component is mounted.
SetState(sub, new, old) == IF sub.mounted THEN new ELSE old

\* ------------------------------------------------------------ Results: mount and props
\* Rendering Results throws when an element of the list is undefined: the
\* reduce of counts reads r.risk_assessment, DrugRiskRow reads
\* result.risk_assessment.  Nothing catches it, so the screen goes blank.
RenderThrows(res) == \E i \in 1..Len(res) : res[i] = UndefinedResult

\* ------------------------------------------------------------ the components of a list
\* Mutant: a row that mounts open.
NewRowOpen == [expanded |-> TRUE, standardDose |-> <<>>, showSources |-> FALSE]

\* The state a component has when it mounts.  DrugRiskRow: expanded false,
\* standardDose '', and in its LLMExplanationPanel showSources false.
NewRow == [expanded |-> FALSE, standardDose |-> <<>>, showSources |-> FALSE]
\* GeneCard: expanded false.
NewGeneCard == FALSE
\* DrugCard, the card view of a result: its two Accordions (AI Explanation,
\* Detected Variants), each useState(defaultOpen) with defaultOpen = false
\* and no caller passing another value.
NewDrugCard == <<FALSE, FALSE>>

\* results.map((r, i) => <DrugRiskRow key={i} .../>): the component at an
\* index that was there before keeps its state, one at a new index mounts.
RowsFor(old, res) ==
    [i \in 1..Len(res) |-> IF i <= Len(old) THEN old[i] ELSE NewRow]

\* results.map((r, i) => <DrugCard key={i} .../>)
DrugCardsFor(old, res) ==
    [i \in 1..Len(res) |-> IF i <= Len(old) THEN old[i] ELSE NewDrugCard]

\* genePanel.map(g => <GeneCard key={g.gene} .../>), inside results.length > 0:
\* the card of a gene that had a card keeps its state.
CardsFor(oldPanel, old, res, panel) ==
    IF Len(res) = 0 THEN <<>>
    ELSE [k \in 1..Len(panel) |->
            IF \E j \in 1..Len(old) : oldPanel[j].gene = panel[k].gene
            THEN old[CHOOSE j \in 1..Len(old) : oldPanel[j].gene = panel[k].gene]
            ELSE NewGeneCard]

\* The render of a page that shows res and panel, on the components pg had
\* (none on mount).  A render that throws takes the whole tree down.
Reconcile(pg, res, panel) ==
    IF RenderThrows(res)
    THEN [pg EXCEPT !.rows = <<>>, !.cards = <<>>, !.drugCards = <<>>]
    ELSE [pg EXCEPT !.rows = RowsFor(pg.rows, res),
                    !.cards = CardsFor(pg.genePanel, pg.cards, res, panel),
                    !.drugCards = DrugCardsFor(pg.drugCards, res)]

\* Results mounted with props (results, uploadData, genePanel): the useState
\* initial values, and the first render.
MountResults(initialResults, upload, initialGenePanel) ==
    LET pg == [mounted |-> TRUE, crashed |-> RenderThrows(initialResults),
               results |-> initialResults, genePanel |-> initialGenePanel,
               fetchPatientId |-> <<>>, fetching |-> FALSE, fetchError |-> NoError,
               activeUploadData |-> upload,
               rows |-> <<>>, cards |-> <<>>, drugCards |-> <<>>]
    IN  Reconcile(pg, initialResults, initialGenePanel)

\* Results already on screen and given new props: the two effects copy a
\* non-empty list into the state; activeUploadData keeps its value.
ReceiveProps(pg, initialResults, initialGenePanel) ==
    LET res == IF Len(initialResults) > 0 THEN initialResults ELSE pg.results
        genes == IF Len(initialGenePanel) > 0 THEN initialGenePanel ELSE pg.genePanel
    IN  [Reconcile(pg, res, genes) EXCEPT
            !.results = res, !.genePanel = genes, !.crashed = RenderThrows(res)]

\* What App's render of the results view does to the page.
RenderResults(pg, res, upload, genes) ==
    IF pg.mounted /\ ~pg.crashed THEN ReceiveProps(pg, res, genes)
    ELSE IF pg.crashed THEN pg
    ELSE MountResults(res, upload, genes)

\* ------------------------------------------------------------ App
\* navigate('upload'): Home's buttons, the Navbar on home, "+ New Analysis".
NavigateUpload ==
    /\ view \in {"home", "results"}
    /\ view' = "upload"
    /\ MountUpload
    /\ page' = PageUnmounted
    /\ UNCHANGED <<results, uploadData, genePanel, subs, requests>>
    /\ UNCHANGED <<rowVars, fetches, apiCall>>

\* navigate('home'): the Navbar's logo and "Home" button.  Leaving the upload
\* view unmounts Upload; nothing in Upload runs on unmount.
NavigateHome ==
    /\ view \in {"upload", "results"}
    /\ view' = "home"
    /\ MountUpload
    /\ subs' = IF view = "upload" THEN Orphaned(subs) ELSE subs
    /\ page' = PageUnmounted
    /\ UNCHANGED <<results, uploadData, genePanel, requests>>
    /\ UNCHANGED <<rowVars, fetches, apiCall>>

\* ------------------------------------------------------------ Upload: the form
FormShown == view = "upload" /\ ~loading

\* <input type="file" onChange>: if (f) setFile(f)
FileInputChange(f) ==
    /\ FormShown
    /\ file' = f
    /\ UNCHANGED <<appVars, patientCode, selectedDrugs, selectedMeds, loading,
                   pipelineStep, toast, subs, requests>>
    /\ UNCHANGED <<rowVars, pageVars, apiCall>>

\* showToast(msg): setToast(msg); setTimeout(() => setToast(null), 4000)
ShowToast(msg) == toast' = msg

\* Mutant: a drop handler that takes whatever file is dropped.
HandleDropAnyFile(f) ==
    /\ FormShown
    /\ IF f # NoFile
       THEN /\ file' = f
            /\ UNCHANGED toast
       ELSE /\ ShowToast("Please upload a .vcf file.")
            /\ UNCHANGED file
    /\ UNCHANGED <<appVars, patientCode, selectedDrugs, selectedMeds, loading,
                   pipelineStep, subs, requests>>
    /\ UNCHANGED <<rowVars, pageVars, apiCall>>

\* handleDrop: f is files[0] of the drop, NoFile when nothing was a file.
HandleDrop(f) ==
    /\ FormShown
    /\ IF f # NoFile /\ EndsWith(f, VcfSuffix)
       THEN /\ file' = f
            /\ UNCHANGED toast
       ELSE /\ ShowToast("Please upload a .vcf file.")
            /\ UNCHANGED file
    /\ UNCHANGED <<appVars, patientCode, selectedDrugs, selectedMeds, loading,
                   pipelineStep, subs, requests>>
    /\ UNCHANGED <<rowVars, pageVars, apiCall>>

\* The 4 s timer of a showToast fires: setToast(null).  Every toast on
\* screen has its own timer pending; a timer that finds the toast already
\* cleared changes nothing and is left out.
ToastTimeout ==
    /\ view = "upload"
    /\ toast # NoToast
    /\ toast' = NoToast
    /\ UNCHANGED <<appVars, formVars, loading, pipelineStep, subs, requests>>
    /\ UNCHANGED <<rowVars, pageVars, apiCall>>

SetPatientCode(c) ==
    /\ FormShown
    /\ patientCode' = c
    /\ UNCHANGED <<appVars, file, selectedDrugs, selectedMeds, loading,
                   pipelineStep, toast, subs, requests>>
    /\ UNCHANGED <<rowVars, pageVars, apiCall>>

toggleDrug(d) ==
    /\ FormShown
    /\ selectedDrugs' = Toggle(selectedDrugs, d)
    /\ UNCHANGED <<appVars, file, patientCode, selectedMeds, loading,
                   pipelineStep, toast, subs, requests>>
    /\ UNCHANGED <<rowVars, pageVars, apiCall>>

toggleMed(m) ==
    /\ FormShown
    /\ selectedMeds' = Toggle(selectedMeds, m)
    /\ UNCHANGED <<appVars, file, patientCode, selectedDrugs, loading,
                   pipelineStep, toast, subs, requests>>
    /\ UNCHANGED <<rowVars, pageVars, apiCall>>

toggleAll ==
    /\ FormShown
    /\ selectedDrugs' = IF Len(selectedDrugs) = Len(SUPPORTED_DRUGS) THEN <<>> ELSE SUPPORTED_DRUGS
    /\ UNCHANGED <<appVars, file, patientCode, selectedMeds, loading,
                   pipelineStep, toast, subs, requests>>
    /\ UNCHANGED <<rowVars, pageVars, apiCall>>

\* ------------------------------------------------------------ Upload.handleSubmit
\* The two validation returns of handleSubmit.
SubmitBlockedMessage ==
    IF file = NoFile THEN "Please select a VCF file."
    ELSE "Select at least one drug to analyze."

\* Mutant: only the file is validated.
SubmitValidFileOnly == file # NoFile

SubmitValid == file # NoFile /\ Len(selectedDrugs) # 0

\* handleSubmit called with the form incomplete: a toast and nothing else.
\* (The submit button is also disabled in these states.)
HandleSubmitBlocked ==
    /\ FormShown
    /\ ~SubmitValid
    /\ ShowToast(SubmitBlockedMessage)
    /\ UNCHANGED <<appVars, formVars, loading, pipelineStep, subs, requests>>
    /\ UNCHANGED <<rowVars, pageVars, apiCall>>

\* A handleSubmit run from setLoading(true) up to the await of analyzeVCF.
NewSubmission(args) ==
    [mounted |-> TRUE, pc |-> "awaiting", step |-> 1, tickerLive |-> TRUE,
     ticks |-> 0, args |-> args, hasData |-> FALSE, data |-> NoData, leftAt |-> "none"]

\* Mutant: an analyzeVCF that posts the form again when the first post fails.
PostAnalyzeWithRetry(n) == n + 2

\* analyzeVCF posts the form once: one fetch per call.
PostAnalyze(n) == n + 1

HandleSubmit ==
    /\ FormShown
    /\ SubmitValid
    /\ Len(subs) < MaxSubs
    /\ loading' = TRUE
    /\ pipelineStep' = 1
    /\ LET args == [file |-> file, patientCode |-> patientCode,
                    drugs |-> selectedDrugs, concurrentMedications |-> selectedMeds]
       IN /\ subs' = Append(subs, NewSubmission(args))
          /\ requests' = PostAnalyze(requests)
    /\ UNCHANGED <<appVars, formVars, toast>>
    /\ UNCHANGED <<rowVars, pageVars, apiCall>>

\* Mutant: the ticker without its cap.
TickerStepUncapped(step) == step + 1

\* step = Math.min(step + 1, 6)
TickerStep(step) == Min(step + 1, LastTickerStep)

\* The setInterval callback of submission s.
Tick(s) ==
    /\ s \in 1..Len(subs)
    /\ subs[s].tickerLive
    /\ subs[s].ticks < MaxTicks
    /\ subs' = [subs EXCEPT ![s].step = TickerStep(@), ![s].ticks = @ + 1]
    /\ pipelineStep' = SetState(subs[s], TickerStep(subs[s].step), pipelineStep)
    /\ UNCHANGED <<appVars, formVars, loading, toast, requests>>
    /\ UNCHANGED <<rowVars, pageVars, apiCall>>

\* Mutant: the interval is never cleared.
ClearIntervalForgotten(sub) == sub

\* clearInterval(ticker)
ClearInterval(sub) == [sub EXCEPT !.tickerLive = FALSE]

\* analyzeVCF resolved: clearInterval(ticker); setPipelineStep(7); then the
\* 600 ms wait starts.
AnalyzeResolved(s, o) ==
    /\ s \in 1..Len(subs)
    /\ subs[s].pc = "awaiting"
    /\ ~AnalyzeThrows(o)
    /\ subs' = [subs EXCEPT ![s] = [ClearInterval(@) EXCEPT
                    !.pc = "delay", !.hasData = o.hasData, !.data = o.data]]
    /\ pipelineStep' = SetState(subs[s], CompleteStep, pipelineStep)
    /\ UNCHANGED <<appVars, formVars, loading, toast, requests>>
    /\ UNCHANGED <<rowVars, pageVars, apiCall>>

\* err.message || 'Analysis failed. Check console.'
CatchMessage(message) == IF message # "" THEN message ELSE "Analysis failed. Check console."

\* Mutant: a catch block that reports the error but leaves the loader up.
CatchKeepsLoader(s, message) ==
    /\ subs' = [subs EXCEPT ![s] = Finish(ClearInterval(@), "failed")]
    /\ toast' = SetState(subs[s], CatchMessage(message), toast)
    /\ UNCHANGED <<appVars, formVars, loading, pipelineStep, requests>>
    /\ UNCHANGED <<rowVars, pageVars, apiCall>>

\* Mutant: a catch block that hides the loader but leaves the stage as it was.
CatchKeepsStage(s, message) ==
    /\ subs' = [subs EXCEPT ![s] = Finish(ClearInterval(@), "failed")]
    /\ toast' = SetState(subs[s], CatchMessage(message), toast)
    /\ loading' = SetState(subs[s], FALSE, loading)
    /\ UNCHANGED <<appVars, formVars, pipelineStep, requests>>
    /\ UNCHANGED <<rowVars, pageVars, apiCall>>

\* The catch block of handleSubmit, run by submission s: clearInterval(ticker),
\* showToast, setLoading(false), setPipelineStep(0); then the run is over.
Catch(s, message) ==
    /\ subs' = [subs EXCEPT ![s] = Finish(ClearInterval(@), "failed")]
    /\ toast' = SetState(subs[s], CatchMessage(message), toast)
    /\ loading' = SetState(subs[s], FALSE, loading)
    /\ pipelineStep' = SetState(subs[s], 0, pipelineStep)
    /\ UNCHANGED <<appVars, formVars, requests>>
    /\ UNCHANGED <<rowVars, pageVars, apiCall>>

\* analyzeVCF threw (transport failure, HTTP error or success !== true).
AnalyzeRejected(s, o) ==
    /\ s \in 1..Len(subs)
    /\ subs[s].pc = "awaiting"
    /\ AnalyzeThrows(o)
    /\ Catch(s, AnalyzeThrown(o))

\* Array.isArray(data.results) ? data.results : [data.results]
NormalizeResults(r) ==
    IF r.tag = "array" THEN r.items
    ELSE IF r.tag = "object" THEN r.items
    ELSE <<UndefinedResult>>

\* data.gene_panel || []
GenePanelOrEmpty(g) == IF g.present THEN g.entries ELSE <<>>

UploadMeta(data) ==
    [patient_code |-> data.patient_code, patient_id |-> data.patient_id,
     total_variants_found |-> data.total_variants_parsed]

\* Mutant: a handleResults that takes no gene panel.
HandleResultsWithoutGenes(res, upload, genes) ==
    /\ results' = res
    /\ uploadData' = upload
    /\ genePanel' = genePanel
    /\ view' = "results"

\* App.handleResults(res, upload, genes)
HandleResults(res, upload, genes) ==
    /\ results' = res
    /\ uploadData' = upload
    /\ genePanel' = genes
    /\ view' = "results"

\* The 600 ms wait of submission s is over and its data is there: onResults.
\* Showing the results view unmounts Upload.
DeliverResults(s) ==
    /\ s \in 1..Len(subs)
    /\ subs[s].pc = "delay"
    /\ subs[s].hasData
    /\ HandleResults(NormalizeResults(subs[s].data.results), UploadMeta(subs[s].data),
                     GenePanelOrEmpty(subs[s].data.gene_panel))
    /\ subs' = [i \in 1..Len(subs) |->
                   IF i = s THEN Finish(Orphan(subs[i]), "done")
                   ELSE IF view = "upload" THEN Orphan(subs[i])
                   ELSE subs[i]]
    /\ MountUpload
    /\ page' = RenderResults(page, results', uploadData', genePanel')
    /\ UNCHANGED requests
    /\ UNCHANGED <<rowVars, fetches, apiCall>>

\* Mutant: the read of data.results outside the try block: the TypeError ends
\* the run and nothing resets the loader.
DeliverThrowsUncaught(s) ==
    /\ s \in 1..Len(subs)
    /\ subs[s].pc = "delay"
    /\ ~subs[s].hasData
    /\ subs' = [subs EXCEPT ![s] = Finish(@, "failed")]
    /\ UNCHANGED <<appVars, formVars, loading, pipelineStep, toast, requests>>
    /\ UNCHANGED <<rowVars, pageVars, apiCall>>

\* The 600 ms wait is over and the payload had no data: data.results throws
\* a TypeError inside the try block.
DeliverThrows(s) ==
    /\ s \in 1..Len(subs)
    /\ subs[s].pc = "delay"
    /\ ~subs[s].hasData
    /\ Catch(s, "Cannot read properties of undefined (reading 'results')")

\* ------------------------------------------------------------ DrugRiskRow
UpperCase == <<"A", "B", "C", "D", "E", "F", "G", "H", "I", "J", "K", "L", "M", "N", "O", "P", "Q", "R", "S", "T", "U", "V", "W", "X", "Y", "Z">>
LowerCase == <<"a", "b", "c", "d", "e", "f", "g", "h", "i", "j", "k", "l", "m", "n", "o", "p", "q", "r", "s", "t", "u", "v", "w", "x", "y", "z">>

\* String.prototype.toLowerCase, character by character.
ToLowerChar(c) ==
    IF \E i \in 1..Len(UpperCase) : UpperCase[i] = c
    THEN LowerCase[CHOOSE i \in 1..Len(UpperCase) : UpperCase[i] = c]
    ELSE c
ToLowerCase(s) == [i \in 1..Len(s) |-> ToLowerChar(s[i])]

\* String.prototype.includes
StrIncludes(s, sub) ==
    \E i \in 1..(Len(s) - Len(sub) + 1) : SubSeq(s, i, i + Len(sub) - 1) = sub

\* A risk_label that is null or undefined.
NullLabel == <<"<null>">>

\* label || ''
OrEmpty(label) == IF label = NullLabel THEN <<>> ELSE label

StrToxic == <<"t", "o", "x", "i", "c">>
StrIneffective == <<"i", "n", "e", "f", "f", "e", "c", "t", "i", "v", "e">>
StrAdjust == <<"a", "d", "j", "u", "s", "t">>
StrSafe == <<"s", "a", "f", "e">>

\* The risk labels a result may carry.
RiskLabels ==
    { NullLabel,
      <<>>,
      <<"T", "o", "x", "i", "c">>,
      <<"T", "O", "X", "I", "C">>,
      <<"t", "o", "x", "i", "c">>,
      <<"I", "n", "e", "f", "f", "e", "c", "t", "i", "v", "e">>,
      <<"A", "d", "j", "u", "s", "t", " ", "D", "o", "s", "e">>,
      <<"p", "l", "e", "a", "s", "e", " ", "a", "d", "j", "u", "s", "t", " ", "d", "o", "s", "e">>,
      <<"A", "D", "J", "U", "S", "T">>,
      <<"S", "a", "f", "e">>,
      <<"s", "a", "f", "e">>,
      <<"U", "n", "k", "n", "o", "w", "n">>,
      <<"u", "n", "s", "a", "f", "e">>,
      <<"T", "o", "x", "i", "c", "i", "t", "y">> }

MetaToxic == [accent |-> "#DC2626", bg |-> "#FEF2F2", icon |-> "red", border |-> "#FECACA"]
MetaIneffective == [accent |-> "#D97706", bg |-> "#FFFBEB", icon |-> "orange", border |-> "#FDE68A"]
MetaAdjust == [accent |-> "#2563EB", bg |-> "#EFF6FF", icon |-> "yellow", border |-> "#BFDBFE"]
MetaSafe == [accent |-> "#16A34A", bg |-> "#F0FDF4", icon |-> "green", border |-> "#BBF7D0"]
MetaUnknown == [accent |-> "#9CA3AF", bg |-> "#F8FAFC", icon |-> "white", border |-> "#E2E8F0"]

\* Mutant: the label is compared as it came, without toLowerCase.
riskMetaCaseSensitive(label) ==
    LET l == OrEmpty(label)
    IN  IF l = StrToxic THEN MetaToxic
        ELSE IF l = StrIneffective THEN MetaIneffective
        ELSE IF StrIncludes(l, StrAdjust) THEN MetaAdjust
        ELSE IF l = StrSafe THEN MetaSafe
        ELSE MetaUnknown

\* riskMeta(label): the category of a label, as its accent metadata.
riskMeta(label) ==
    LET l == ToLowerCase(OrEmpty(label))
    IN  IF l = StrToxic THEN MetaToxic
        ELSE IF l = StrIneffective THEN MetaIneffective
        ELSE IF StrIncludes(l, StrAdjust) THEN MetaAdjust
        ELSE IF l = StrSafe THEN MetaSafe
        ELSE MetaUnknown

\* doseModifier of a row, in tenths: 1.0 unless the label says otherwise.
doseModifier(label) ==
    LET riskLower == ToLowerCase(OrEmpty(label))
    IN  IF riskLower = StrToxic \/ riskLower = StrIneffective THEN 0
        ELSE IF StrIncludes(riskLower, StrAdjust) THEN 5
        ELSE 10

\* Math.round of t/10: the nearest integer, the larger one on a tie.
MathRound(tenths) == (tenths + 5) \div 10

\* confPct = Math.round((risk.confidence_score || 0) * 100)
confPct(score) ==
    IF score.present /\ score.thousandths # 0 THEN MathRound(score.thousandths) ELSE 0

\* The confidence scores a result may carry: absent, inside [0, 1] and
\* outside it (-0.2, 0, 0.004, 0.5, 0.926, 1, 1.5).
ConfidenceScores ==
    {NoScore} \cup {Score(t) : t \in {-200, 0, 4, 500, 926, 1000, 1500}}

\* ------------------------------------------------------------ the dose calculator
Digits == <<"0", "1", "2", "3", "4", "5", "6", "7", "8", "9">>
IsDigit(c) == \E i \in 1..Len(Digits) : Digits[i] = c
DigitValue(c) == (CHOOSE i \in 1..Len(Digits) : Digits[i] = c) - 1

\* How many digits s starts with.
RECURSIVE LeadingDigits(_)
LeadingDigits(s) ==
    IF s # <<>> /\ IsDigit(Head(s)) THEN 1 + LeadingDigits(Tail(s)) ELSE 0

\* The number a digit string denotes (0 for the empty string).
RECURSIVE DigitsValue(_)
DigitsValue(s) ==
    IF s = <<>> THEN 0
    ELSE 10 * DigitsValue(SubSeq(s, 1, Len(s) - 1)) + DigitValue(s[Len(s)])

Drop(s, n) == SubSeq(s, n + 1, Len(s))

\* HTML's "valid floating-point number": -? (digits+ (. digits+)? | . digits+)
\* ([eE] [-+]? digits+)?
ValidExponent(s) ==
    \/ s = <<>>
    \/ /\ Head(s) \in {"e", "E"}
       /\ LET t == IF Len(s) > 1 /\ s[2] \in {"-", "+"} THEN Drop(s, 2) ELSE Drop(s, 1)
          IN  t # <<>> /\ LeadingDigits(t) = Len(t)

ValidFloatingPointNumber(s) ==
    LET body == IF s # <<>> /\ Head(s) = "-" THEN Tail(s) ELSE s
        i == LeadingDigits(body)
        rest == Drop(body, i)
        dot == rest # <<>> /\ Head(rest) = "."
        j == IF dot THEN LeadingDigits(Tail(rest)) ELSE 0
    IN  IF dot THEN j >= 1 /\ ValidExponent(Drop(rest, j + 1))
        ELSE i >= 1 /\ ValidExponent(rest)

\* Mutant: a text input, which hands over whatever was typed.
TextInputValue(typed) == typed

\* e.target.value of <input type="number">: the typed text when it is a valid
\* floating-point number, else the empty string.
NumberInputValue(typed) == IF ValidFloatingPointNumber(typed) THEN typed ELSE <<>>

\* A double is modelled as the decimal it is nearest to, in tenths, with the
\* sign of its rounding error: 0.3 is stored just below 0.3, 0.9 just above,
\* and n/2 exactly.
FloatError(tenths) ==
    CASE tenths % 5 = 0 -> 0
      [] tenths \in {1, 9, 11} -> 1
      [] tenths \in {3, 7, 19} -> -1

NaN == [nan |-> TRUE, tenths |-> 0, err |-> 0]

\* parseFloat: the longest prefix digits* (. digits*)? holding a digit, NaN
\* when there is none.  (Signs and exponents are not among the inputs; one
\* fractional digit is read.)
ParseFloat(s) ==
    LET i == LeadingDigits(s)
        rest == Drop(s, i)
        dot == rest # <<>> /\ Head(rest) = "."
        j == IF dot THEN LeadingDigits(Tail(rest)) ELSE 0
        tenths == 10 * DigitsValue(SubSeq(s, 1, i))
                  + (IF j >= 1 THEN DigitValue(rest[2]) ELSE 0)
    IN  IF i = 0 /\ j = 0 THEN NaN
        ELSE [nan |-> FALSE, tenths |-> tenths, err |-> FloatError(tenths)]

\* x * doseModifier, the modifier in tenths (0, 5 or 10): the product in
\* hundredths; halving a double is exact, so the error keeps its sign.
Times(x, modifier) ==
    [nan |-> x.nan, hundredths |-> x.tenths * modifier,
     err |-> IF modifier = 0 THEN 0 ELSE x.err]

RECURSIVE DigitsOf(_)
DigitsOf(n) ==
    IF n < 10 THEN <<Digits[n + 1]>>
    ELSE DigitsOf(n \div 10) \o <<Digits[(n % 10) + 1]>>

StrNaN == <<"N", "a", "N">>

\* Number.prototype.toFixed(1): the n with n/10 nearest to the double, the
\* larger n when two are equally near; "NaN" for NaN.
ToFixed1(y) ==
    LET q == y.hundredths \div 10
        r == y.hundredths % 10
        n == IF r > 5 \/ (r = 5 /\ y.err >= 0) THEN q + 1 ELSE q
    IN  IF y.nan THEN StrNaN
        ELSE DigitsOf(n \div 10) \o <<".">> \o <<Digits[(n % 10) + 1]>>

NullDose == <<"<null>">>

\* Mutant: the product, not the string, decides whether there is a result.
calculatedDoseFalsyZero(dose, label) ==
    IF dose # <<>> /\ Times(ParseFloat(dose), doseModifier(label)).hundredths # 0
    THEN ToFixed1(Times(ParseFloat(dose), doseModifier(label)))
    ELSE NullDose

\* standardDose ? (parseFloat(standardDose) * doseModifier).toFixed(1) : null
calculatedDose(dose, label) ==
    IF dose # <<>> THEN ToFixed1(Times(ParseFloat(dose), doseModifier(label)))
    ELSE NullDose

Placeholder == <<"&mdash;">>
StrMg == <<" ", "m", "g">>

\* calculatedDose ? `${calculatedDose} mg` : '—'
AdjustedDose(dose, label) ==
    LET c == calculatedDose(dose, label)
    IN  IF c # NullDose /\ c # <<>> THEN c \o StrMg ELSE Placeholder

\* What a user may type into the Standard Dose field.
DoseTexts ==
    {
      <<>>,
      <<"0">>,
      <<"7">>,
      <<"1", "0">>,
      <<"1", "0", "0">>,
      <<"0", ".", "3">>,
      <<"0", ".", "5">>,
      <<"0", ".", "9">>,
      <<"2", ".", "5">>,
      <<".", "5">>,
      <<"1", "2", ".">>,
      <<"a", "b", "c">>,
      <<"1", "e">>,
      <<".">>,
      <<"1", "x">> }

\* ------------------------------------------------------------ specification
Next ==
    \/ NavigateUpload
    \/ NavigateHome
    \/ \E f \in FileNames : FileInputChange(f)
    \/ \E f \in FileNames \cup {NoFile} : HandleDrop(f)
    \/ ToastTimeout
    \/ \E c \in PatientCodes : SetPatientCode(c)
    \/ \E d \in Range(SUPPORTED_DRUGS) : toggleDrug(d)
    \/ \E m \in Range(KNOWN_MEDS) : toggleMed(m)
    \/ toggleAll
    \/ HandleSubmitBlocked
    \/ HandleSubmit
    \/ \E s \in 1..MaxSubs : Tick(s)
    \/ \E s \in 1..MaxSubs, o \in Outcomes : AnalyzeResolved(s, o)
    \/ \E s \in 1..MaxSubs, o \in Outcomes : AnalyzeRejected(s, o)
    \/ \E s \in 1..MaxSubs : DeliverResults(s)
    \/ \E s \in 1..MaxSubs : DeliverThrows(s)

Spec == Init /\ [][Next]_vars

\* The request of submission s settles, one way or the other.
Settle(s) ==
    \E o \in Outcomes : AnalyzeResolved(s, o) \/ AnalyzeRejected(s, o)

\* The 600 ms timer of submission s fires and the run goes on.
AfterDelay(s) == DeliverResults(s) \/ DeliverThrows(s)

\* The steps that start, drive and abandon handleSubmit runs: navigation, the
\* two form fields a submit needs, the submit, and what the runs do.  The
\* other form fields and the toast's timer act only on the form.
LiveNext ==
    \/ NavigateUpload
    \/ NavigateHome
    \/ \E f \in FileNames : FileInputChange(f)
    \/ \E d \in Range(SUPPORTED_DRUGS) : toggleDrug(d)
    \/ HandleSubmit
    \/ \E s \in 1..MaxSubs : Tick(s)
    \/ \E s \in 1..MaxSubs, o \in Outcomes : AnalyzeResolved(s, o)
    \/ \E s \in 1..MaxSubs, o \in Outcomes : AnalyzeRejected(s, o)
    \/ \E s \in 1..MaxSubs : DeliverResults(s)
    \/ \E s \in 1..MaxSubs : DeliverThrows(s)

\* The pipeline with its scheduling: a pending fetch settles (the case the
\* server never answers is left out), and a timer that was set fires.
LiveSpec ==
    /\ Init /\ [][LiveNext]_vars
    /\ \A s \in 1..MaxSubs : WF_vars(Settle(s)) /\ WF_vars(AfterDelay(s))

\* ------------------------------------------------------------ one drug row
\* The results a row may be given: every risk label and confidence score, on
\* one drug.
RowResults ==
    { [ResultWarfarin EXCEPT !.risk_label = l, !.confidence_score = c,
                             !.phenoconversion_occurred = f[1],
                             !.ui_phenoconversion_occurred = f[2],
                             !.phenoconversion_detected = f[3]] :
        l \in RiskLabels, c \in ConfidenceScores, f \in BOOLEAN \X BOOLEAN \X BOOLEAN }

\* DrugRiskRow's phenoconversion indicator, and the condition under which its
\* expanded part holds a PhenoconversionPanel:
\* risk.phenoconversion_occurred || metrics.ui_phenoconversion_occurred
phenoconversionShown(result) ==
    result.phenoconversion_occurred \/ result.ui_phenoconversion_occurred

\* The earlier DrugRiskRow: risk.phenoconversion_occurred alone.
phenoconversionShownBefore(result) == result.phenoconversion_occurred

\* DrugCard: const converted = qm.phenoconversion_detected, the condition of
\* its "Phenoconverted" and "Converted" badges.
converted(result) == result.phenoconversion_detected

\* onClick of the summary row: setExpanded(e => !e)
ToggleExpanded ==
    /\ expanded' = ~expanded
    /\ UNCHANGED <<pipelineVars, pageVars, apiCall, rowResult, standardDose, doseField>>

\* onChange of the Standard Dose field (in the expanded part of the row):
\* setStandardDose(e.target.value)
StandardDoseChange(typed) ==
    /\ expanded
    /\ doseField' = typed
    /\ standardDose' = NumberInputValue(typed)
    /\ UNCHANGED <<pipelineVars, pageVars, apiCall, rowResult, expanded>>

RowInitAny ==
    /\ PipelineInit
    /\ PageIdle
    /\ ApiIdle
    /\ \E r \in RowResults : RowInit(r)

RowNext ==
    \/ ToggleExpanded
    \/ \E typed \in DoseTexts : StandardDoseChange(typed)

RowSpec == RowInitAny /\ [][RowNext]_vars

\* ------------------------------------------------------------ Results page
MaxFetches == 2

\* String.prototype.trim, for spaces.
RECURSIVE TrimStart(_)
TrimStart(s) == IF s # <<>> /\ Head(s) = " " THEN TrimStart(Tail(s)) ELSE s
RECURSIVE TrimEnd(_)
TrimEnd(s) == IF s # <<>> /\ s[Len(s)] = " " THEN TrimEnd(SubSeq(s, 1, Len(s) - 1)) ELSE s
Trim(s) == TrimEnd(TrimStart(s))

\* What a user may type into the "Fetch Results by Patient ID" field.
PatientIds == { <<>>, <<" ">>, <<"P", "1">>, <<" ", "P", "1", " ">> }

\* Results as GET /results/{id} and POST /analyze return them.
ResultClopidogrel ==
    [drug |-> "CLOPIDOGREL", primary_gene |-> "CYP2C19",
     risk_label |-> <<"S", "a", "f", "e">>,
     confidence_score |-> Score(1000), diplotype |-> "*1/*1", phenotype |-> "NM",
     genetic_phenotype |-> "NM", active_inhibitor |-> Undefined,
     detected_variants |-> <<>>,
     phenoconversion_occurred |-> FALSE, ui_phenoconversion_occurred |-> FALSE,
     phenoconversion_detected |-> FALSE]
\* A second drug on CYP2D6, with another diplotype and other variants.
ResultTramadol ==
    [drug |-> "TRAMADOL", primary_gene |-> "CYP2D6",
     risk_label |-> <<"A", "d", "j", "u", "s", "t", " ", "D", "o", "s", "e">>,
     confidence_score |-> Score(500), diplotype |-> "*1/*4", phenotype |-> "IM",
     genetic_phenotype |-> Undefined, active_inhibitor |-> "PAROXETINE",
     detected_variants |-> <<"rs1065852", "rs3892097">>,
     phenoconversion_occurred |-> FALSE, ui_phenoconversion_occurred |-> TRUE,
     phenoconversion_detected |-> TRUE]
\* No pharmacogenomic_profile at all, label Unknown.
ResultSimvastatin ==
    [drug |-> "SIMVASTATIN", primary_gene |-> Undefined,
     risk_label |-> <<"U", "n", "k", "n", "o", "w", "n">>,
     confidence_score |-> Score(0), diplotype |-> Undefined, phenotype |-> Undefined,
     genetic_phenotype |-> Undefined, active_inhibitor |-> Undefined,
     detected_variants |-> UndefinedList,
     phenoconversion_occurred |-> FALSE, ui_phenoconversion_occurred |-> FALSE,
     phenoconversion_detected |-> FALSE]
ResultPhenytoin ==
    [drug |-> "PHENYTOIN", primary_gene |-> "CYP2C9",
     risk_label |-> <<"I", "n", "e", "f", "f", "e", "c", "t", "i", "v", "e">>,
     confidence_score |-> Score(926), diplotype |-> "*3/*3", phenotype |-> "PM",
     genetic_phenotype |-> "PM", active_inhibitor |-> Undefined,
     detected_variants |-> <<"rs1057910">>,
     phenoconversion_occurred |-> FALSE, ui_phenoconversion_occurred |-> FALSE,
     phenoconversion_detected |-> FALSE]
\* A gene and nothing else: no risk_assessment, no diplotype, no phenotype,
\* no detected_variants.
ResultBare ==
    [drug |-> "TACROLIMUS", primary_gene |-> "CYP3A5",
     risk_label |-> NullLabel,
     confidence_score |-> NoScore, diplotype |-> Undefined, phenotype |-> Undefined,
     genetic_phenotype |-> Undefined, active_inhibitor |-> Undefined,
     detected_variants |-> UndefinedList,
     phenoconversion_occurred |-> FALSE, ui_phenoconversion_occurred |-> FALSE,
     phenoconversion_detected |-> FALSE]
\* An empty primary_gene and an upper-case label.
ResultNoGene ==
    [drug |-> "ASPIRIN", primary_gene |-> "",
     risk_label |-> <<"T", "O", "X", "I", "C">>,
     confidence_score |-> Score(1500), diplotype |-> "", phenotype |-> "",
     genetic_phenotype |-> "", active_inhibitor |-> Undefined,
     detected_variants |-> <<>>,
     phenoconversion_occurred |-> FALSE, ui_phenoconversion_occurred |-> FALSE,
     phenoconversion_detected |-> FALSE]

DataFive ==
    Payload([tag |-> "array",
             items |-> <<ResultCodeine, ResultClopidogrel, ResultTramadol,
                         ResultSimvastatin, ResultPhenytoin>>],
            [present |-> FALSE, entries |-> <<>>])
DataServerPanel ==
    Payload([tag |-> "object", items |-> <<ResultPhenytoin>>],
            [present |-> TRUE, entries |-> <<PanelCYP2C9>>])
DataEmptyPanel ==
    Payload([tag |-> "array", items |-> <<ResultWarfarin, ResultNoGene>>],
            [present |-> TRUE, entries |-> <<>>])
DataSparse ==
    Payload([tag |-> "object", items |-> <<ResultBare>>],
            [present |-> FALSE, entries |-> <<>>])
DataNoResults ==
    Payload([tag |-> "undefined", items |-> <<>>],
            [present |-> FALSE, entries |-> <<>>])

\* The data objects the server answers with, on either endpoint.
ResultsData == {DataFive, DataServerPanel, DataEmptyPanel, DataSparse, DataNoResults}

\* The outcomes of GET /results/{id}.
FetchOutcomes == OutcomesOf(ResultsData)

\* json.error || json.detail?.error || 'Failed to fetch results'
FetchErrorMessage(o) ==
    IF o.error # "" THEN o.error
    ELSE IF o.detail_error # "" THEN o.detail_error
    ELSE "Failed to fetch results"

\* getResultsByPatient throws: fetch rejected, or !res.ok || !json.success.
FetchThrows(o) == o.transport \/ ~o.ok \/ ~o.success

\* The message of the Error getResultsByPatient's caller catches.
FetchThrown(o) == IF o.transport THEN "Failed to fetch" ELSE FetchErrorMessage(o)

\* Mutant: the label is compared as it came, without toLowerCase.
CountOneCaseSensitive(acc, r) ==
    LET l == OrEmpty(r.risk_label)
    IN  IF l = StrToxic \/ l = StrIneffective THEN [acc EXCEPT !.critical = @ + 1]
        ELSE IF StrIncludes(l, StrAdjust) THEN [acc EXCEPT !.warn = @ + 1]
        ELSE IF l = StrSafe THEN [acc EXCEPT !.safe = @ + 1]
        ELSE acc

\* The reducer of counts: one result into the accumulator.
CountOne(acc, r) ==
    LET l == ToLowerCase(OrEmpty(r.risk_label))
    IN  IF l = StrToxic \/ l = StrIneffective THEN [acc EXCEPT !.critical = @ + 1]
        ELSE IF StrIncludes(l, StrAdjust) THEN [acc EXCEPT !.warn = @ + 1]
        ELSE IF l = StrSafe THEN [acc EXCEPT !.safe = @ + 1]
        ELSE acc

RECURSIVE Reduce(_, _)
Reduce(res, acc) ==
    IF res = <<>> THEN acc ELSE Reduce(Tail(res), CountOne(acc, Head(res)))

\* counts = results.reduce(..., { critical: 0, warn: 0, safe: 0 })
Counts(res) == Reduce(res, [critical |-> 0, warn |-> 0, safe |-> 0])

\* x || 'Unknown'
OrUnknown(x) == IF x = Undefined \/ x = "" THEN "Unknown" ELSE x

\* pgx.detected_variants || []
OrEmptyList(v) == IF v = UndefinedList THEN <<>> ELSE v

\* The entry _buildGenePanelFallback makes of result r.
FallbackEntry(r) ==
    [gene |-> r.primary_gene,
     diplotype |-> OrUnknown(r.diplotype),
     phenotype |-> OrUnknown(r.phenotype),
     genetic_phenotype |->
        IF r.genetic_phenotype # Undefined /\ r.genetic_phenotype # ""
        THEN r.genetic_phenotype ELSE OrUnknown(r.phenotype),
     active_inhibitor |-> r.active_inhibitor,
     variant_count |-> Len(OrEmptyList(r.detected_variants)),
     summary |-> PanelSummary(r.primary_gene),
     variants |-> OrEmptyList(r.detected_variants)]

\* seen[gene] is set.
Seen(seen, gene) == \E k \in 1..Len(seen) : seen[k].gene = gene

\* Mutant: a later result of a gene replaces the entry of an earlier one.
FallbackStepLastWins(seen, r) ==
    LET gene == r.primary_gene
    IN  IF gene = Undefined \/ gene = "" THEN seen
        ELSE IF Seen(seen, gene)
        THEN [k \in 1..Len(seen) |-> IF seen[k].gene = gene THEN FallbackEntry(r) ELSE seen[k]]
        ELSE Append(seen, FallbackEntry(r))

\* One turn of the loop: if (!gene || seen[gene]) continue; seen[gene] = {...}.
\* seen keeps its keys in insertion order (gene names are not array indices).
FallbackStep(seen, r) ==
    LET gene == r.primary_gene
    IN  IF gene = Undefined \/ gene = "" \/ Seen(seen, gene) THEN seen
        ELSE Append(seen, FallbackEntry(r))

RECURSIVE FallbackLoop(_, _)
FallbackLoop(arr, seen) ==
    IF arr = <<>> THEN seen ELSE FallbackLoop(Tail(arr), FallbackStep(seen, Head(arr)))

\* _buildGenePanelFallback(res): Object.values(seen) after the loop over
\* Array.isArray(res) ? res : [res].
buildGenePanelFallback(r) ==
    LET arr == IF r.tag = "array" THEN r.items
               ELSE IF r.tag = "object" THEN r.items
               ELSE <<UndefinedResult>>
    IN  FallbackLoop(arr, <<>>)

\* Mutant: whatever is not an array is taken for no results.
NormalizeFetchedArraysOnly(r) == IF r.tag = "array" THEN r.items ELSE <<>>

\* Array.isArray(data.results) ? data.results : [data.results]
NormalizeFetched(r) ==
    IF r.tag = "array" THEN r.items
    ELSE IF r.tag = "object" THEN r.items
    ELSE <<UndefinedResult>>

\* data.gene_panel || _buildGenePanelFallback(data.results): an array, empty
\* or not, is truthy.
GenePanelOrFallback(data) ==
    IF data.gene_panel.present THEN data.gene_panel.entries
    ELSE buildGenePanelFallback(data.results)

ActiveUploadData(data) ==
    [patient_code |-> data.patient_code, patient_id |-> data.patient_id,
     total_variants_found |-> data.total_variants_parsed]

PageShown == page.mounted /\ ~page.crashed

\* onChange of the patient id field: setFetchPatientId(e.target.value)
SetFetchPatientId(id) ==
    /\ PageShown
    /\ page' = [page EXCEPT !.fetchPatientId = id]
    /\ UNCHANGED <<pipelineVars, rowVars, fetches, apiCall>>

\* A handleFetchByPatient run up to the await of getResultsByPatient.
NewFetch(id) == [pc |-> "awaiting", id |-> id, hasData |-> FALSE, data |-> NoData]

\* handleFetchByPatient, from the Fetch button or the Enter key (the key is
\* not disabled while a fetch is running): nothing for a blank id, else
\* setFetching(true); setFetchError(null); getResultsByPatient(id.trim()).
HandleFetchByPatient ==
    /\ PageShown
    /\ IF Trim(page.fetchPatientId) = <<>>
       THEN UNCHANGED <<page, fetches>>
       ELSE /\ Len(fetches) < MaxFetches
            /\ page' = [page EXCEPT !.fetching = TRUE, !.fetchError = NoError]
            /\ fetches' = Append(fetches, NewFetch(Trim(page.fetchPatientId)))
    /\ UNCHANGED <<pipelineVars, rowVars, apiCall>>

\* getResultsByPatient resolved with data: setResults, setGenePanel,
\* setActiveUploadData, and setFetching(false) in finally; then the page
\* renders the new list.
FetchResolved(i, o) ==
    /\ i \in 1..Len(fetches)
    /\ fetches[i].pc = "awaiting"
    /\ ~FetchThrows(o)
    /\ o.hasData
    /\ fetches' = [fetches EXCEPT ![i] = [@ EXCEPT !.pc = "done", !.hasData = TRUE, !.data = o.data]]
    /\ page' = IF PageShown
               THEN [Reconcile(page, NormalizeFetched(o.data.results),
                                     GenePanelOrFallback(o.data)) EXCEPT
                        !.results = NormalizeFetched(o.data.results),
                        !.genePanel = GenePanelOrFallback(o.data),
                        !.activeUploadData = ActiveUploadData(o.data),
                        !.fetching = FALSE,
                        !.crashed = RenderThrows(NormalizeFetched(o.data.results))]
               ELSE page
    /\ UNCHANGED <<pipelineVars, rowVars, apiCall>>

\* err.message || 'Failed to fetch results.'
FetchCatchMessage(message) == IF message = "" THEN "Failed to fetch results." ELSE message

\* Mutant: a catch block that also empties the list it could not replace.
FetchCatchClearsResults(i, message) ==
    /\ fetches' = [fetches EXCEPT ![i] = [@ EXCEPT !.pc = "failed"]]
    /\ page' = IF PageShown
               THEN [page EXCEPT !.fetchError = FetchCatchMessage(message), !.fetching = FALSE,
                                 !.results = <<>>, !.genePanel = <<>>]
               ELSE page
    /\ UNCHANGED <<pipelineVars, rowVars, apiCall>>

\* catch and finally of handleFetchByPatient.
FetchCatch(i, message) ==
    /\ fetches' = [fetches EXCEPT ![i] = [@ EXCEPT !.pc = "failed"]]
    /\ page' = IF PageShown
               THEN [page EXCEPT !.fetchError = FetchCatchMessage(message), !.fetching = FALSE]
               ELSE page
    /\ UNCHANGED <<pipelineVars, rowVars, apiCall>>

\* getResultsByPatient threw, or returned undefined (a success payload with
\* no data) so that data.results throws a TypeError.
FetchRejected(i, o) ==
    /\ i \in 1..Len(fetches)
    /\ fetches[i].pc = "awaiting"
    /\ FetchThrows(o) \/ ~o.hasData
    /\ FetchCatch(i, IF FetchThrows(o) THEN FetchThrown(o)
                     ELSE "Cannot read properties of undefined (reading 'results')")

\* The loader at stage 7 with the response in hand: a.vcf and WARFARIN were
\* submitted and analyzeVCF has resolved with data d.
AwaitingHandOff(d) ==
    /\ view = "upload"
    /\ results = <<>>
    /\ uploadData = NoUpload
    /\ genePanel = <<>>
    /\ file = <<"a", ".", "v", "c", "f">>
    /\ patientCode = "PATIENT_001"
    /\ selectedDrugs = <<"WARFARIN">>
    /\ selectedMeds = <<>>
    /\ loading = TRUE
    /\ pipelineStep = CompleteStep
    /\ toast = NoToast
    /\ subs = << [ClearInterval(NewSubmission(
                     [file |-> file, patientCode |-> patientCode,
                      drugs |-> selectedDrugs, concurrentMedications |-> selectedMeds]))
                  EXCEPT !.pc = "delay", !.hasData = TRUE, !.data = d] >>
    /\ requests = 1

PageInit ==
    /\ \E d \in ResultsData : AwaitingHandOff(d)
    /\ RowInit(ResultWarfarin)
    /\ PageIdle
    /\ ApiIdle

PageNext ==
    \/ \E s \in 1..MaxSubs : DeliverResults(s)
    \/ \E id \in PatientIds : SetFetchPatientId(id)
    \/ HandleFetchByPatient
    \/ \E i \in 1..MaxFetches, o \in FetchOutcomes : FetchResolved(i, o)
    \/ \E i \in 1..MaxFetches, o \in FetchOutcomes : FetchRejected(i, o)

PageSpec == PageInit /\ [][PageNext]_vars

\* ------------------------------------------------------------ Results page: its components
\* The components the user works: the first MaxToggled of each list.
MaxToggled == 2

\* What is typed into a row's Standard Dose field.
TreeDoseTexts == { <<>>, <<"5", "0">> }

\* DrugRiskRow i, onClick of the summary row: setExpanded(e => !e)
ToggleRowExpanded(i) ==
    /\ PageShown
    /\ i \in 1..Len(page.rows)
    /\ page' = [page EXCEPT !.rows[i].expanded = ~@]
    /\ UNCHANGED <<pipelineVars, rowVars, fetches, apiCall>>

\* DrugRiskRow i, onChange of its Standard Dose field (in the expanded part):
\* setStandardDose(e.target.value)
RowStandardDoseChange(i, typed) ==
    /\ PageShown
    /\ i \in 1..Len(page.rows)
    /\ page.rows[i].expanded
    /\ page' = [page EXCEPT !.rows[i].standardDose = NumberInputValue(typed)]
    /\ UNCHANGED <<pipelineVars, rowVars, fetches, apiCall>>

\* The LLMExplanationPanel of row i, "View Sources": setShowSources(s => !s)
ToggleShowSources(i) ==
    /\ PageShown
    /\ i \in 1..Len(page.rows)
    /\ page.rows[i].expanded
    /\ page' = [page EXCEPT !.rows[i].showSources = ~@]
    /\ UNCHANGED <<pipelineVars, rowVars, fetches, apiCall>>

\* GeneCard k, onClick: setExpanded(e => !e)
ToggleGeneCard(k) ==
    /\ PageShown
    /\ k \in 1..Len(page.cards)
    /\ page' = [page EXCEPT !.cards[k] = ~@]
    /\ UNCHANGED <<pipelineVars, rowVars, fetches, apiCall>>

\* Accordion a of DrugCard i, onClick of its header: setOpen(o => !o)
ToggleAccordion(i, a) ==
    /\ PageShown
    /\ i \in 1..Len(page.drugCards)
    /\ page' = [page EXCEPT !.drugCards[i][a] = ~@]
    /\ UNCHANGED <<pipelineVars, rowVars, fetches, apiCall>>

\* The payloads the page is given while its components are worked: five
\* results without a panel, one result with the server's panel.
TreeData == {DataFive, DataServerPanel}

TreeOutcomes ==
    [transport : {FALSE}, ok : {TRUE}, success : {TRUE}, error : {""},
     detail_error : {""}, hasData : {TRUE}, data : TreeData]

TreeInit ==
    /\ \E d \in TreeData : AwaitingHandOff(d)
    /\ RowInit(ResultWarfarin)
    /\ PageIdle
    /\ ApiIdle

TreeNext ==
    \/ \E s \in 1..MaxSubs : DeliverResults(s)
    \/ SetFetchPatientId(<<"P", "1">>)
    \/ HandleFetchByPatient
    \/ \E i \in 1..MaxFetches, o \in TreeOutcomes : FetchResolved(i, o)
    \/ \E i \in 1..MaxToggled : ToggleRowExpanded(i)
    \/ \E i \in 1..MaxToggled, typed \in TreeDoseTexts : RowStandardDoseChange(i, typed)
    \/ \E i \in 1..MaxToggled : ToggleShowSources(i)
    \/ \E k \in 1..MaxToggled : ToggleGeneCard(k)
    \/ \E i \in 1..MaxToggled, a \in 1..2 : ToggleAccordion(i, a)

TreeSpec == TreeInit /\ [][TreeNext]_vars

\* ------------------------------------------------------------ api.js, call by call
\* Array.prototype.join
RECURSIVE Join(_, _)
Join(list, sep) ==
    IF list = <<>> THEN <<>>
    ELSE IF Len(list) = 1 THEN list
    ELSE <<Head(list), sep>> \o Join(Tail(list), sep)

\* encodeURIComponent, character by character: space and slash are escaped,
\* letters, digits and _ are kept.
EncodeChar(c) == IF c = " " THEN "%20" ELSE IF c = "/" THEN "%2F" ELSE c
EncodeURIComponent(id) == [k \in 1..Len(id) |-> EncodeChar(id[k])]

\* The FormData analyzeVCF builds.
AnalyzeForm(args) ==
    [vcf_file |-> args.file,
     patient_code |-> IF args.patientCode = "" THEN "PATIENT_001" ELSE args.patientCode,
     drugs |-> Join(args.drugs, ","),
     concurrent_medications |-> Join(args.concurrentMedications, ",")]

\* Mutant: only the payload's success flag is looked at, not the HTTP status.
CallEndsIgnoringStatus(fn, request, o, throws, thrown) ==
    [fn |-> fn, request |-> request, outcome |-> o,
     threw |-> o.transport \/ ~o.success,
     message |-> IF o.transport \/ ~o.success THEN thrown ELSE NoError,
     hasData |-> ~(o.transport \/ ~o.success) /\ o.hasData,
     data |-> IF o.transport \/ ~o.success THEN NoData ELSE o.data]

\* How a call ends: it throws an Error with a message, or returns json.data.
CallEnds(fn, request, o, throws, thrown) ==
    [fn |-> fn, request |-> request, outcome |-> o,
     threw |-> throws,
     message |-> IF throws THEN thrown ELSE NoError,
     hasData |-> ~throws /\ o.hasData,
     data |-> IF throws THEN NoData ELSE o.data]

\* The arguments analyzeVCF is called with.
AnalyzeArgs ==
    [file : {<<"a", ".", "v", "c", "f">>}, patientCode : {"PT-7", ""},
     drugs : {<<"WARFARIN">>, <<"CODEINE", "WARFARIN">>},
     concurrentMedications : {<<>>, <<"PAROXETINE">>}]

\* The ids getResultsByPatient is called with.
LookupIds == { <<"P", "1">>, <<"a", " ", "b">>, <<"a", "/", "b">> }

\* analyzeVCF({file, patientCode, drugs, concurrentMedications})
analyzeVCF(args, o) ==
    /\ apiCall' = CallEnds("analyzeVCF",
                           [method |-> "POST", path |-> <<"/analyze">>, form |-> AnalyzeForm(args)],
                           o, AnalyzeThrows(o), AnalyzeThrown(o))
    /\ UNCHANGED <<pipelineVars, rowVars, pageVars>>

\* getResultsByPatient(patientId)
getResultsByPatient(patientId, o) ==
    /\ apiCall' = CallEnds("getResultsByPatient",
                           [method |-> "GET",
                            path |-> <<"/results/">> \o EncodeURIComponent(patientId),
                            form |-> NoForm],
                           o, FetchThrows(o), FetchThrown(o))
    /\ UNCHANGED <<pipelineVars, rowVars, pageVars>>

ApiNext ==
    \/ \E args \in AnalyzeArgs, o \in Outcomes : analyzeVCF(args, o)
    \/ \E id \in LookupIds, o \in FetchOutcomes : getResultsByPatient(id, o)

ApiSpec == Init /\ [][ApiNext]_vars

\* ============================================================ properties
Live(s) == subs[s].pc = "awaiting"
Shown(s) == subs[s].mounted

\* C1: while the analyze request of a submission is outstanding and its
\* Upload is on screen, the stage shown is min(1 + k, 6) after k ticks of its
\* ticker, so it is in 1..6 and never 7.
C1_StageCappedWhileOutstanding ==
    \A s \in 1..Len(subs) :
        (Live(s) /\ Shown(s)) =>
            /\ view = "upload" /\ loading
            /\ pipelineStep = (IF 1 + subs[s].ticks < 6 THEN 1 + subs[s].ticks ELSE 6)
            /\ pipelineStep \in 1..6

\* C1 witness: the response is still outstanding after six ticks and the
\* stage stands at 6.
C1_Witness ==
    \E s \in 1..Len(subs) : Live(s) /\ Shown(s) /\ subs[s].ticks >= 6 /\ pipelineStep = 6

\* C2: once the success handler of a submission has run (ticker cancelled,
\* stage 7), its ticker never fires again, stage 7 is never replaced by a
\* stage in 1..6, and the stage becomes 7 only in the step in which a
\* submission's request resolves, which happens once per submission.
C2_NoTickAfterSuccess ==
    [][ /\ \A s \in 1..Len(subs) :
             subs[s].pc \in {"delay", "done"} =>
                 /\ subs'[s].ticks = subs[s].ticks \/ subs'[s].pc \in {"done", "failed"}
                 /\ subs'[s].pc # "awaiting"
                 /\ subs[s].pc = "delay" /\ subs'[s].pc = "delay" => subs'[s].step = subs[s].step
        /\ pipelineStep = 7 => pipelineStep' \notin 1..6
        /\ (pipelineStep' = 7 /\ pipelineStep # 7) =>
             \E s \in 1..Len(subs) : Live(s) /\ subs'[s].pc = "delay"
      ]_vars

\* C2 witness: a submission that ticked, then succeeded, with stage 7 shown.
C2_Witness ==
    \E s \in 1..Len(subs) :
        subs[s].pc = "delay" /\ Shown(s) /\ subs[s].ticks >= 1 /\ pipelineStep = 7

\* C3: when the user left the upload view while the request was outstanding
\* (stage 1..6), nothing that submission does afterwards changes the App's
\* view, results, upload metadata or gene panel.
C3_OrphanedResponseDiscarded ==
    [][ \A s \in 1..Len(subs) :
            (subs[s].leftAt = "awaiting" /\ subs'[s].pc # subs[s].pc)
            => appVars' = appVars
      ]_vars

\* C4: after the request succeeded, after it failed, and after the upload
\* view was left with the request outstanding, the ticker of that submission
\* fires no more.
C4_TickerReleasedOnEveryExit ==
    [][ \A s \in 1..Len(subs) :
            (~Live(s) \/ ~Shown(s)) =>
                (subs'[s].ticks = subs[s].ticks \/ subs'[s].pc \in {"done", "failed"})
      ]_vars

\* C5: when the analyze request fails while its Upload is on screen, the
\* ticker is cancelled, the stage is 0 with the form shown, an error message
\* is up, and file, drugs, co-medications and patient code are those passed
\* to analyzeVCF at submit.
C5_FailureRestoresForm ==
    [][ \A s \in 1..Len(subs) :
            (Live(s) /\ Shown(s) /\ subs'[s].pc = "failed") =>
                /\ ~subs'[s].tickerLive
                /\ pipelineStep' = 0 /\ ~loading' /\ view' = "upload"
                /\ toast' # NoToast
                /\ file' = subs[s].args.file
                /\ selectedDrugs' = subs[s].args.drugs
                /\ selectedMeds' = subs[s].args.concurrentMedications
                /\ patientCode' = subs[s].args.patientCode
      ]_vars

\* C5 witness: the form is back after a server-reported failure, still
\* holding a file, a drug, a co-medication and an edited patient code.
C5_Witness ==
    /\ view = "upload" /\ ~loading /\ pipelineStep = 0
    /\ toast = "VCF parse error"
    /\ file # NoFile /\ selectedDrugs # <<>> /\ selectedMeds # <<>> /\ patientCode = ""
    /\ \E s \in 1..Len(subs) : subs[s].pc = "failed"

\* C6: from a form without a file or without a drug no step issues a request,
\* starts a ticker or moves the stage off 0; a step that issues a request
\* starts from a form with a file and a drug, issues exactly one, starts one
\* ticker and moves the stage from 0 to 1.
C6_SubmitGuard ==
    [][ /\ (view = "upload" /\ ~loading /\ (file = NoFile \/ selectedDrugs = <<>>)) =>
               /\ requests' = requests
               /\ Len(subs') = Len(subs)
               /\ pipelineStep' = 0
        /\ (requests' # requests \/ Len(subs') # Len(subs)) =>
               /\ file # NoFile /\ selectedDrugs # <<>>
               /\ requests' = requests + 1
               /\ Len(subs') = Len(subs) + 1
               /\ subs'[Len(subs')].tickerLive /\ subs'[Len(subs')].pc = "awaiting"
               /\ pipelineStep = 0 /\ pipelineStep' = 1
      ]_vars

\* C6 witness: a submit was refused for want of a drug (its message is still
\* set), then a drug was chosen and the next submit issued the one request.
C6_Witness ==
    /\ toast = "Select at least one drug to analyze."
    /\ requests = 1 /\ Len(subs) = 1 /\ pipelineStep = 1 /\ loading

\* C7: a resolved request puts the stage at 7, where it stays until the
\* hand-off; the hand-off moves the App to the results view holding that
\* response's result list, its gene panel (the empty list when it has none)
\* and its patient code, patient id and variant total; the App enters the
\* results view in no other way.
C7_HandOffCarriesResponse ==
    [][ /\ \A s \in 1..Len(subs) :
             /\ (Live(s) /\ Shown(s) /\ subs'[s].pc = "delay") => pipelineStep' = 7
             /\ (subs[s].pc = "delay" /\ Shown(s)) => pipelineStep = 7
             /\ (subs[s].pc = "delay" /\ subs'[s].pc = "done") =>
                    LET d == subs[s].data
                    IN  /\ view' = "results"
                        /\ d.results.tag # "undefined" => results' = d.results.items
                        /\ genePanel' = (IF d.gene_panel.present THEN d.gene_panel.entries ELSE <<>>)
                        /\ uploadData' = [patient_code |-> d.patient_code,
                                          patient_id |-> d.patient_id,
                                          total_variants_found |-> d.total_variants_parsed]
        /\ (view' = "results" /\ view # "results") =>
             \E s \in 1..Len(subs) : subs[s].pc = "delay" /\ subs'[s].pc = "done"
      ]_vars

\* C7 witness: the results view after two hand-offs, showing the response
\* that carried a gene panel.
C7_Witness ==
    /\ view = "results"
    /\ results = <<ResultWarfarin, ResultCodeine>>
    /\ genePanel = <<PanelCYP2C9>>
    /\ uploadData.patient_code = "PT-7"
    /\ \A s \in 1..Len(subs) : subs[s].pc = "done"
    /\ Len(subs) = 2

\* ------------------------------------------------------------ dose calculator
Abs(x) == IF x < 0 THEN -x ELSE x

\* The decimal numeral of k tenths, as a user types it.
NumeralText(k) ==
    IF k % 10 = 0 THEN DigitsOf(k \div 10)
    ELSE DigitsOf(k \div 10) \o <<".">> \o <<Digits[(k % 10) + 1]>>

\* The numeric dose texts of DoseTexts with the number each denotes, in tenths.
DoseNumerals ==
    { [text |-> NumeralText(k), tenths |-> k] : k \in {0, 3, 5, 9, 25, 70, 100, 1000} }
    \cup { [text |-> <<".", "5">>, tenths |-> 5] }

NonNumericTexts == DoseTexts \ { d.text : d \in DoseNumerals }

\* n tenths written with one decimal.
DecimalText(n) == DigitsOf(n \div 10) \o <<".">> \o <<Digits[(n % 10) + 1]>>

\* The modifier the specification gives each category, in tenths.
SpecModifier(meta) ==
    CASE meta = MetaToxic -> 0
      [] meta = MetaIneffective -> 0
      [] meta = MetaAdjust -> 5
      [] meta = MetaSafe -> 10

RowLabel == rowResult.risk_label
RowText == AdjustedDose(standardDose, RowLabel)

\* C8: a row whose category is Unknown has no modifier and shows the
\* placeholder whatever dose is entered.
C8_UnknownShowsPlaceholder ==
    riskMeta(RowLabel) = MetaUnknown => RowText = Placeholder

\* C9: for a numeric dose d and a category with modifier m, the row shows
\* d * m as a one-decimal number (a nearest tenth of the product): 100 and
\* Adjust give 50.0, 10 and Adjust give 5.0, 100 and Toxic give 0.0, a number
\* and not the placeholder.
C9_AdjustedDoseIsProduct ==
    /\ \A d \in DoseNumerals :
         (standardDose = d.text /\ riskMeta(RowLabel) # MetaUnknown) =>
            \E n \in 0..d.tenths :
                /\ RowText = DecimalText(n) \o StrMg
                /\ Abs(10 * n - d.tenths * SpecModifier(riskMeta(RowLabel))) <= 5
    /\ (standardDose = <<"1", "0", "0">> /\ riskMeta(RowLabel) = MetaAdjust) =>
            RowText = <<"5", "0", ".", "0">> \o StrMg
    /\ (standardDose = <<"1", "0">> /\ riskMeta(RowLabel) = MetaAdjust) =>
            RowText = <<"5", ".", "0">> \o StrMg
    /\ (standardDose = <<"1", "0", "0">> /\ riskMeta(RowLabel) = MetaToxic) =>
            RowText = <<"0", ".", "0">> \o StrMg

\* C9 witness: dose 100 entered on a Toxic row.
C9_Witness ==
    /\ standardDose = <<"1", "0", "0">>
    /\ riskMeta(RowLabel) = MetaToxic
    /\ expanded

SpecCategory(label) ==
    CASE label \in { <<"T", "o", "x", "i", "c">>, <<"T", "O", "X", "I", "C">>,
                     <<"t", "o", "x", "i", "c">> } -> MetaToxic
      [] label \in { <<"I", "n", "e", "f", "f", "e", "c", "t", "i", "v", "e">> } -> MetaIneffective
      [] label \in { <<"A", "d", "j", "u", "s", "t", " ", "D", "o", "s", "e">>,
                     <<"p", "l", "e", "a", "s", "e", " ", "a", "d", "j", "u", "s", "t", " ", "d", "o", "s", "e">>,
                     <<"A", "D", "J", "U", "S", "T">> } -> MetaAdjust
      [] label \in { <<"S", "a", "f", "e">>, <<"s", "a", "f", "e">> } -> MetaSafe
      [] OTHER -> MetaUnknown

\* Two labels that differ in letter case only.
SameButCase(a, b) ==
    /\ a # NullLabel /\ b # NullLabel
    /\ Len(a) = Len(b)
    /\ \A i \in 1..Len(a) :
          \/ a[i] = b[i]
          \/ \E k \in 1..Len(UpperCase) : {a[i], b[i]} = {UpperCase[k], LowerCase[k]}

Categories == {MetaToxic, MetaIneffective, MetaAdjust, MetaSafe, MetaUnknown}

\* C11: the classifier gives every label exactly one category, the one the
\* rules name (exact toxic, exact ineffective, contains adjust, exact safe,
\* Unknown for everything else, null and empty included), the same category
\* for labels that differ in case only, and every field of it is filled in.
C11_ClassifierTotalCaseInsensitive ==
    /\ riskMeta(RowLabel) = SpecCategory(RowLabel)
    /\ riskMeta(RowLabel) \in Categories
    /\ \A f \in DOMAIN riskMeta(RowLabel) : riskMeta(RowLabel)[f] # ""
    /\ \A other \in RiskLabels :
          SameButCase(other, RowLabel) => riskMeta(other) = riskMeta(RowLabel)

\* C11 witness: a row labelled TOXIC in capitals, classified Critical-Toxic.
C11_Witness ==
    /\ RowLabel = <<"T", "O", "X", "I", "C">>
    /\ riskMeta(RowLabel) = MetaToxic
    /\ expanded

\* C20: the confidence percentage shown on a row is within 0..100 whatever
\* confidence_score the result carries.
C20_ConfidenceClamped ==
    confPct(rowResult.confidence_score) \in 0..100

\* ------------------------------------------------------------ Results page
\* How many results of the list fall in one of the categories cats.
InCategories(res, cats) ==
    Cardinality({ i \in 1..Len(res) : riskMeta(res[i].risk_label) \in cats })

FiveResults ==
    <<ResultCodeine, ResultClopidogrel, ResultTramadol, ResultSimvastatin, ResultPhenytoin>>

\* C12: for the result list on screen, critical counts the results classified
\* Critical-Toxic or Critical-Ineffective, warn those classified Adjust, safe
\* those classified Safe, and the three add up to the results that are not
\* Unknown; labels Toxic, Safe, Adjust Dose, Unknown, Ineffective give
\* critical 2, warn 1, safe 1.
C12_CountsPartition ==
    PageShown =>
        LET res == page.results
            c == Counts(res)
        IN  /\ c.critical = InCategories(res, {MetaToxic, MetaIneffective})
            /\ c.warn = InCategories(res, {MetaAdjust})
            /\ c.safe = InCategories(res, {MetaSafe})
            /\ c.critical + c.warn + c.safe = Len(res) - InCategories(res, {MetaUnknown})
            /\ res = FiveResults => c = [critical |-> 2, warn |-> 1, safe |-> 1]

\* C12 witness: the five-label list is on screen with its Unknown result in
\* no bucket.
C12_Witness ==
    /\ PageShown
    /\ page.results = FiveResults
    /\ Counts(page.results) = [critical |-> 2, warn |-> 1, safe |-> 1]

HasGene(r) == r.primary_gene # Undefined /\ r.primary_gene # ""

\* The first result of the list with primary gene g.
FirstWith(res, g) ==
    CHOOSE i \in 1..Len(res) :
        /\ res[i].primary_gene = g
        /\ \A j \in 1..(i - 1) : res[j].primary_gene # g

\* Panel p is the reconstruction of list res as the specification words it.
IsReconstruction(p, res) ==
    /\ \A a, b \in 1..Len(p) : a # b => p[a].gene # p[b].gene
    /\ {p[k].gene : k \in 1..Len(p)} =
       {res[i].primary_gene : i \in {j \in 1..Len(res) : HasGene(res[j])}}
    /\ \A a, b \in 1..Len(p) :
          a < b => FirstWith(res, p[a].gene) < FirstWith(res, p[b].gene)
    /\ \A k \in 1..Len(p) :
          LET r == res[FirstWith(res, p[k].gene)]
          IN  /\ r.diplotype \notin {Undefined, ""} => p[k].diplotype = r.diplotype
              /\ r.phenotype \notin {Undefined, ""} => p[k].phenotype = r.phenotype
              /\ r.detected_variants # UndefinedList => p[k].variants = r.detected_variants

\* A step in which fetch i hands its data to the page on screen.
FetchLanded(i) ==
    /\ i \in 1..Len(fetches)
    /\ fetches[i].pc = "awaiting"
    /\ fetches'[i].pc = "done"
    /\ PageShown

\* C13: the panel reconstructed from a fetched result list has one entry per
\* distinct non-empty primary gene, in order of first occurrence, each with
\* the diplotype, phenotype and variants of the first result of that gene;
\* results without a primary gene give no entry; genes CYP2D6, CYP2C19,
\* CYP2D6 give CYP2D6, CYP2C19 with the first CYP2D6 result's variants.
C13_PanelReconstruction ==
    [][ \A i \in 1..MaxFetches :
            (FetchLanded(i) /\ ~fetches'[i].data.gene_panel.present) =>
                /\ IsReconstruction(page'.genePanel, page'.results)
                /\ page'.results = FiveResults =>
                      /\ Len(page'.genePanel) = 3
                      /\ page'.genePanel[1].gene = "CYP2D6"
                      /\ page'.genePanel[2].gene = "CYP2C19"
                      /\ page'.genePanel[1].variants = ResultCodeine.detected_variants
                      /\ page'.genePanel[1].diplotype = ResultCodeine.diplotype
      ]_vars

\* C13 witness: the five results were fetched without a panel and the page
\* shows the three reconstructed entries.
C13_Witness ==
    /\ PageShown
    /\ page.results = FiveResults
    /\ Len(page.genePanel) = 3
    /\ page.genePanel[1].gene = "CYP2D6" /\ page.genePanel[3].gene = "CYP2C9"
    /\ \E i \in 1..Len(fetches) : fetches[i].pc = "done" /\ fetches[i].data = DataFive

\* C14: when a fetch lands, a non-empty gene panel of the response is shown
\* as it is, and with an absent or empty one the panel shown is the
\* reconstruction from the response's results.
C14_ServerPanelPreferredWhenNonEmpty ==
    [][ \A i \in 1..MaxFetches :
            FetchLanded(i) =>
                LET g == fetches'[i].data.gene_panel
                IN  IF g.present /\ g.entries # <<>>
                    THEN page'.genePanel = g.entries
                    ELSE IsReconstruction(page'.genePanel, page'.results)
      ]_vars

\* C15: a result list with at least one primary gene is never on screen with
\* an empty gene panel, whichever path brought it.
C15_PanelNeverMissing ==
    (PageShown /\ \E i \in 1..Len(page.results) : HasGene(page.results[i]))
        => page.genePanel # <<>>

\* C17: on the hand-off of an analyze response and on the landing of a
\* fetch, a results array of the response becomes the list held as it is, a
\* single result object becomes a one-element list holding it, and every
\* element of the list held is a result record.
C17_ResultsAlwaysArray ==
    [][ /\ \A s \in 1..Len(subs) :
             (subs[s].pc = "delay" /\ subs'[s].pc = "done"
                 /\ subs[s].data.results.tag # "undefined") =>
                 LET r == subs[s].data.results
                 IN  /\ results' = r.items /\ page'.results = r.items
                     /\ r.tag = "object" => Len(results') = 1
                     /\ \A k \in 1..Len(results') : results'[k] # UndefinedResult
        /\ \A i \in 1..MaxFetches :
             (FetchLanded(i) /\ fetches'[i].data.results.tag # "undefined") =>
                 LET r == fetches'[i].data.results
                 IN  /\ page'.results = r.items
                     /\ r.tag = "object" => Len(page'.results) = 1
                     /\ \A k \in 1..Len(page'.results) : page'.results[k] # UndefinedResult
      ]_vars

\* C17 witness: a fetch whose results was a single object has landed and the
\* page holds a one-element list.
C17_Witness ==
    /\ PageShown
    /\ \E i \in 1..Len(fetches) :
          /\ fetches[i].pc = "done"
          /\ fetches[i].data.results.tag = "object"
          /\ page.results = fetches[i].data.results.items
    /\ Len(page.results) = 1

\* C18: whatever optional fields a successful response lacks, showing it
\* raises no error, a result without a label is Unknown and counted nowhere,
\* and a result without a gene has no panel entry.
C18_MissingFieldsNeverFatal ==
    page.mounted =>
        /\ ~page.crashed
        /\ \A i \in 1..Len(page.results) :
              page.results[i].risk_label = NullLabel =>
                  riskMeta(page.results[i].risk_label) = MetaUnknown
        /\ \A k \in 1..Len(page.genePanel) :
              page.genePanel[k].gene \notin {Undefined, ""}

\* ------------------------------------------------------------ api.js
\* C16: a call that got an HTTP response fails exactly when the status is not
\* ok or success is not true; its message is the payload's error if there is
\* one, else detail.error if there is one, else the function's fallback; a
\* call that does not fail returns the payload's data.  A call whose
\* transport failed fails too.
C16_ApiFailureContract ==
    apiCall.fn # "none" =>
        LET o == apiCall.outcome
        IN  /\ ~o.transport => (apiCall.threw <=> (~o.ok \/ ~o.success))
            /\ o.transport => apiCall.threw
            /\ (apiCall.threw /\ ~o.transport) =>
                  /\ o.error # "" => apiCall.message = o.error
                  /\ (o.error = "" /\ o.detail_error # "") => apiCall.message = o.detail_error
                  /\ (o.error = "" /\ o.detail_error = "") =>
                        apiCall.message = (IF apiCall.fn = "analyzeVCF" THEN "Analysis failed"
                                           ELSE "Failed to fetch results")
            /\ ~apiCall.threw =>
                  /\ apiCall.hasData = o.hasData
                  /\ apiCall.data = o.data
                  /\ apiCall.message = NoError

\* C16 witness: getResultsByPatient got HTTP 200 with success false and only
\* a nested detail.error, and threw that message.
C16_Witness ==
    /\ apiCall.fn = "getResultsByPatient"
    /\ apiCall.outcome.ok /\ ~apiCall.outcome.success
    /\ apiCall.outcome.error = ""
    /\ apiCall.threw
    /\ apiCall.message = "Unsupported drug"

\* ------------------------------------------------------------ retries
\* C19: requests are issued one at a time and only by a submit of the form:
\* every accepted submit has issued exactly one, the step in which a request
\* fails issues none, and any step that issues one starts from the form on
\* screen with a file and a drug and puts up the loader at stage 1.
C19_NoAutomaticRetry ==
    [][ /\ requests = Len(subs)
        /\ requests' = Len(subs')
        /\ \A s \in 1..Len(subs) :
              (subs[s].pc = "awaiting" /\ subs'[s].pc = "failed") => requests' = requests
        /\ requests' # requests =>
              /\ requests' = requests + 1
              /\ FormShown /\ SubmitValid
              /\ loading' /\ pipelineStep' = 1
      ]_vars

\* C19 witness: the first request failed, the user submitted again, and the
\* second request is the only one outstanding.
C19_Witness ==
    /\ Len(subs) = 2
    /\ subs[1].pc = "failed" /\ subs[2].pc = "awaiting"
    /\ requests = 2

\* ------------------------------------------------------------ the pipeline as a whole
Outstanding == { s \in 1..Len(subs) : subs[s].pc = "awaiting" }
LiveTickers == { s \in 1..Len(subs) : subs[s].tickerLive }

\* C25: at any time at most one analyze request is outstanding and at most
\* one progress ticker is live.
C25_OneRequestOneTicker ==
    /\ Cardinality(Outstanding) <= 1
    /\ Cardinality(LiveTickers) <= 1

\* C28: while the upload view is on screen the stage is in 0..7, and the
\* loader stands in for the form exactly when the stage is at least 1.
C28_StageRangeAndLoader ==
    view = "upload" =>
        /\ pipelineStep \in 0..CompleteStep
        /\ loading <=> pipelineStep >= 1
        /\ FormShown <=> pipelineStep = 0

\* C28 witness: the loader at stage 7, the form replaced.
C28_Witness ==
    /\ view = "upload"
    /\ pipelineStep = CompleteStep
    /\ loading /\ ~FormShown

\* C30: the file the form holds, and the file of every analyze request, has a
\* name ending in .vcf.
C30_FileAlwaysVcf ==
    /\ file # NoFile => EndsWith(file, VcfSuffix)
    /\ \A s \in 1..Len(subs) :
          subs[s].args # NoArgs => EndsWith(subs[s].args.file, VcfSuffix)

\* C24: a drop of a file whose name does not end in .vcf (or of nothing that
\* is a file) leaves the selected file as it was, shows the message and
\* issues no request and starts no submission.
C24_BadDropBlocked ==
    [][\A f \in FileNames \cup {NoFile} :
          (HandleDrop(f) /\ ~(f # NoFile /\ EndsWith(f, VcfSuffix))) =>
              /\ file' = file
              /\ toast' = "Please upload a .vcf file."
              /\ requests' = requests
              /\ subs' = subs
              /\ loading' = loading /\ view' = view]_vars

\* C24 witness: a.vcf was selected, then b.txt was dropped: the message is up
\* and a.vcf is still the selected file.
C24_Witness ==
    /\ view = "upload"
    /\ toast = "Please upload a .vcf file."
    /\ file = <<"a", ".", "v", "c", "f">>
    /\ requests = 0

\* ------------------------------------------------------------ fetch by id
OutstandingFetches == { i \in 1..Len(fetches) : fetches[i].pc = "awaiting" }

\* C27: at most one fetch-by-id request is outstanding at any time, and once
\* the fetches have settled, with the one requested last a success, the page
\* shows the results, gene panel and patient metadata of that last request.
C27_OneFetchLatestShown ==
    /\ Cardinality(OutstandingFetches) <= 1
    /\ (/\ PageShown
        /\ fetches # <<>>
        /\ OutstandingFetches = {}
        /\ fetches[Len(fetches)].pc = "done")
       => LET d == fetches[Len(fetches)].data
          IN  /\ page.results = NormalizeFetched(d.results)
              /\ page.genePanel = GenePanelOrFallback(d)
              /\ page.activeUploadData = ActiveUploadData(d)

\* C29: a step in which a fetch-by-id fails leaves the results, the gene
\* panel and the patient metadata on screen as they were, records a failure
\* message (the error's own when it has one) and puts the fetching flag back
\* to false; and no step starts a fetch, or raises the fetching flag, from a
\* blank or whitespace-only patient id.
C29_FailedFetchFrame ==
    [][/\ \A i \in 1..MaxFetches, o \in FetchOutcomes :
             (PageShown /\ FetchRejected(i, o)) =>
                 /\ page'.results = page.results
                 /\ page'.genePanel = page.genePanel
                 /\ page'.activeUploadData = page.activeUploadData
                 /\ page'.fetchError \notin {NoError, ""}
                 /\ (FetchThrows(o) /\ FetchThrown(o) # "") => page'.fetchError = FetchThrown(o)
                 /\ ~page'.fetching
                 /\ Len(fetches') = Len(fetches)
       /\ (PageShown /\ Trim(page.fetchPatientId) = <<>>) =>
             /\ Len(fetches') = Len(fetches)
             /\ page.fetching \/ ~page'.fetching
             /\ HandleFetchByPatient => UNCHANGED <<page, fetches>>
       /\ \A i \in 1..Len(fetches) : Trim(fetches[i].id) # <<>>]_vars

\* C29 witness: a fetch has failed on a page that shows results: the message
\* is up, the flag is down, the list is still there.
C29_Witness ==
    /\ PageShown
    /\ \E i \in 1..Len(fetches) : fetches[i].pc = "failed"
    /\ page.fetchError # NoError
    /\ ~page.fetching
    /\ Len(page.results) > 0
    /\ page.fetchPatientId # <<>>

\* ------------------------------------------------------------ termination
PcOf(s) == IF s <= Len(subs) THEN subs[s].pc ELSE "none"
InStages == view = "upload" /\ pipelineStep \in 1..CompleteStep

\* C26: with every analyze request settling, every submission's run comes to
\* its end, the upload view never stays in stages 1..7, and a loader on
\* screen gives way to the results view or to the form at stage 0.
C26_ProcessingEnds ==
    /\ \A s \in 1..MaxSubs :
          (PcOf(s) \in {"awaiting", "delay"}) ~> (PcOf(s) \in {"done", "failed"})
    /\ InStages ~> (view = "results" \/ (~loading /\ pipelineStep = 0))
    /\ []<>(~InStages)

\* C26 witness: a submission failed and the form is back at stage 0 while a
\* second one, submitted after it, is in its stages.
C26_Witness ==
    /\ Len(subs) = 2
    /\ subs[1].pc = "failed"
    /\ subs[2].pc = "delay"
    /\ InStages

\* ------------------------------------------------------------ phenoconversion
\* C23: a result that agrees with the row's result on
\* risk_assessment.phenoconversion_occurred gets the same phenoconversion
\* indicator, in the row (badge and panel), in the earlier row and in the
\* card, whatever its quality_metrics fields hold.
C23_IndicatorFromOneField ==
    \A r \in RowResults :
        r.phenoconversion_occurred = rowResult.phenoconversion_occurred =>
            /\ phenoconversionShown(r) = phenoconversionShown(rowResult)
            /\ phenoconversionShownBefore(r) = phenoconversionShownBefore(rowResult)
            /\ converted(r) = converted(rowResult)

\* ------------------------------------------------------------ expand flags
\* Everything of the page but the component at hand.
SameData == 
    /\ page'.results = page.results
    /\ page'.genePanel = page.genePanel
    /\ page'.activeUploadData = page.activeUploadData
    /\ page'.mounted = page.mounted /\ page'.crashed = page.crashed
    /\ Len(page'.rows) = Len(page.rows)
    /\ Len(page'.cards) = Len(page.cards)
    /\ Len(page'.drugCards) = Len(page.drugCards)

OtherRowsSame(i) == \A j \in 1..Len(page.rows) : j # i => page'.rows[j] = page.rows[j]

\* C21: on the step that mounts the page every gene card, drug row,
\* accordion and source sub-panel is collapsed; and a toggle flips the flag
\* of its own component and changes no other component's state, nor the
\* result list, nor the gene panel.
C21_CollapsedThenIndependent ==
    [][/\ (~page.mounted /\ page'.mounted) =>
             /\ \A i \in 1..Len(page'.rows) :
                    ~page'.rows[i].expanded /\ ~page'.rows[i].showSources
             /\ \A k \in 1..Len(page'.cards) : ~page'.cards[k]
             /\ \A i \in 1..Len(page'.drugCards) : page'.drugCards[i] = <<FALSE, FALSE>>
             /\ Len(page'.results) > 0 /\ ~page'.crashed => Len(page'.rows) = Len(page'.results)
       /\ \A i \in 1..MaxToggled :
             ToggleRowExpanded(i) =>
                 /\ SameData /\ OtherRowsSame(i)
                 /\ page'.rows[i] = [page.rows[i] EXCEPT !.expanded = ~page.rows[i].expanded]
                 /\ page'.cards = page.cards /\ page'.drugCards = page.drugCards
       /\ \A i \in 1..MaxToggled :
             ToggleShowSources(i) =>
                 /\ SameData /\ OtherRowsSame(i)
                 /\ page'.rows[i] = [page.rows[i] EXCEPT !.showSources = ~page.rows[i].showSources]
                 /\ page'.cards = page.cards /\ page'.drugCards = page.drugCards
       /\ \A k \in 1..MaxToggled :
             ToggleGeneCard(k) =>
                 /\ SameData
                 /\ page'.cards[k] = ~page.cards[k]
                 /\ \A j \in 1..Len(page.cards) : j # k => page'.cards[j] = page.cards[j]
                 /\ page'.rows = page.rows /\ page'.drugCards = page.drugCards
       /\ \A i \in 1..MaxToggled, a \in 1..2 :
             ToggleAccordion(i, a) =>
                 /\ SameData
                 /\ page'.drugCards[i][a] = ~page.drugCards[i][a]
                 /\ page'.drugCards[i][3 - a] = page.drugCards[i][3 - a]
                 /\ \A j \in 1..Len(page.drugCards) : j # i => page'.drugCards[j] = page.drugCards[j]
                 /\ page'.rows = page.rows /\ page'.cards = page.cards]_vars

\* C21 witness: of two rows, two gene cards and two accordions one is open
\* and its neighbour is not, and the open row shows its sources.
C21_Witness ==
    /\ PageShown
    /\ Len(page.rows) >= 2 /\ Len(page.cards) >= 2
    /\ page.rows[1].expanded /\ page.rows[1].showSources
    /\ ~page.rows[2].expanded
    /\ ~page.cards[1] /\ page.cards[2]
    /\ page.drugCards[1] = <<TRUE, FALSE>>

\* C22: a step that replaces the displayed result set leaves every drug row
\* and every gene card collapsed and every standard-dose field empty.
C22_ExpansionResetsWithResults ==
    [][(page'.mounted /\ ~page'.crashed /\ page'.results # page.results) =>
          /\ \A i \in 1..Len(page'.rows) :
                ~page'.rows[i].expanded /\ page'.rows[i].standardDose = <<>>
          /\ \A k \in 1..Len(page'.cards) : ~page'.cards[k]]_vars

====
